---------------------------- MODULE Spec2Model ----------------------------
(***************************************************************************)
(* A model of tbucket.py: the classic, scheduled and time-series token     *)
(* buckets kept in a shared SQLite store.                                  *)
(*                                                                         *)
(* Time is a whole number of clock ticks.  A classic or scheduled bucket's *)
(* token count is a real number in the code; here it is kept in units of   *)
(* 1/period of a token, so that the linear refill of `rate / period`       *)
(* tokens per tick is the whole number `rate` of units and every value the *)
(* code computes from whole-numbered arguments is exact.  A time-series    *)
(* bucket counts whole tokens.  The rows of table ts_token_bucket that     *)
(* belong to the bucket's key are a multiset of timestamps, written as a   *)
(* function from each time to the number of rows holding it.               *)
(***************************************************************************)
EXTENDS Integers, Sequences, FiniteSets, TLC

\* ------------------------------------------------------------------ bounds
MaxTime == 2
MaxRate == 2
MaxPeriod == 2
MaxN == 3
MaxLeave == 2
MaxRows == 3
NumProcs == 2

VARIABLES
    kind,       \* which class the bucket object is: "classic", "scheduled", "ts"
    rate,       \* self.rate
    period,     \* self.period
    now,        \* the clock read by time.time()
    tbf,        \* the row of table tbf for self.key: <<>> or <<[tokens, last]>>
    rows,       \* the rows of ts_token_bucket for self.key: time -> count
    pc,         \* the sequential caller: "idle", "done" (a call has returned),
                \* or its place in consume()
    target,     \* the time consume() sleeps until (times TargetDen)
    last,       \* the most recent call of the sequential caller and its outcome
    lock,       \* SQLite's write lock: <<>> or <<holder>>
    journal,    \* SQLite's rollback journal: <<>>, or <<the tables as they were
                \* when the open write transaction began>>
    cpc,        \* each concurrent caller's place in try_consume()/consume()
    creq,       \* each concurrent caller's arguments
    cobs,       \* each concurrent caller's peeked (times, query_time)
    ctarget,    \* the time each concurrent caller sleeps until
    granted,    \* history: every token timestamp a try_consume handed out
    store       \* both tables with their key column: the rows of every key

vars == <<kind, rate, period, now, tbf, rows, pc, target, last,
          lock, journal, cpc, creq, cobs, ctarget, granted, store>>
seqVars == <<pc, target, last>>
concVars == <<lock, journal, cpc, creq, cobs, ctarget, granted>>

\* ------------------------------------------------------------- value sets
TimeVals == 0..MaxTime
Kinds == {"classic", "scheduled", "ts"}
Procs == 1..NumProcs
\* An optional argument: <<>> is Python's None, <<v>> a given value.
None == <<>>
Some(v) == <<v>>
OptTimes == {None} \cup {Some(t) : t \in TimeVals}
NArgs == (0 - 1)..MaxN
LeaveArgs == {None} \cup {Some(l) : l \in 0..MaxLeave}

\* ------------------------------------------------- multisets of timestamps
RECURSIVE SumTo(_, _)
SumTo(b, t) == IF t < 0 THEN 0 ELSE b[t] + SumTo(b, t - 1)
\* len(times)
Count(b) == SumTo(b, MaxTime)
EmptyBag == [t \in TimeVals |-> 0]
BagsUpTo(k) == {b \in [TimeVals -> 0..k] : Count(b) <= k}
\* [t] * n
Copies(t, n) == [u \in TimeVals |-> IF u = t THEN n ELSE 0]
\* list(a) + list(b)
BagPlus(a, b) == [t \in TimeVals |-> a[t] + b[t]]
\* collections.Counter(a) - collections.Counter(b): positive counts only
BagMinus(a, b) == [t \in TimeVals |-> IF a[t] > b[t] THEN a[t] - b[t] ELSE 0]
SubBag(a, b) == \A t \in TimeVals : a[t] <= b[t]
\* every list of at most MaxRows timestamps an argument or a callback may hold
Lists == BagsUpTo(MaxRows)
\* every list of timestamps a fill or prune callback may return
Callbacks == BagsUpTo(MaxRate)
\* the keys of two bucket objects that share one database file
Keys == {"a", "b"}
\* the tables tbf and ts_token_bucket just created, by key
EmptyStore ==
    [tbf |-> [k \in Keys |-> <<>>], ts |-> [k \in Keys |-> EmptyBag]]
HasRows(b) == \E t \in TimeVals : b[t] > 0
\* select max(time)
Latest(b) == CHOOSE t \in TimeVals : b[t] > 0 /\ \A u \in TimeVals : b[u] > 0 => u <= t

\* ---------------------------------------------------- the record of a call
\* What the sequential caller called at this reading of the clock and what came
\* back.  tokens, ts and times are the returned state tuple; tk is the token
\* count the call's own peek observed; err says the call raised instead of
\* returning; broken says the callback it was given broke the contract the
\* docstrings of mutate and set state for it.
Blank ==
    [op |-> "none", done |-> TRUE, n |-> 0, leave |-> 0, qt |-> 0,
     tk |-> 0, ok |-> FALSE, err |-> FALSE, broken |-> FALSE, tokens |-> 0,
     ts |-> 0, times |-> EmptyBag]
Call(op, n, leave) == [Blank EXCEPT !.op = op, !.n = n, !.leave = leave]
Raised(op, n, leave) == [Call(op, n, leave) EXCEPT !.err = TRUE]
OrElse(opt, dflt) == IF opt = None THEN dflt ELSE opt[1]

\* ------------------------------------------- TokenBucket, ScheduledTokenBucket
\* One token, and self.rate tokens, in the units tbf.tokens is kept in.
Unit == IF kind = "ts" THEN 1 ELSE period
Cap == rate * Unit

ClampNoCeiling(tokens) == IF tokens < 0 THEN 0 ELSE tokens
Clamp(tokens) ==
    IF tokens < 0 THEN 0 ELSE IF tokens > Cap THEN Cap ELSE tokens

\* _set: the row written, which is also the state tuple returned
SetRow(tokens, timestamp) == [tokens |-> Clamp(tokens), last |-> timestamp]

GetLastRefillNow(when) == when
GetLastRefill(when) == when - (when % period)
GetNextRefillLate(when) == GetLastRefill(when) + 2 * period
GetNextRefill(when) == GetLastRefill(when) + period

UpdateNoRefill(tokens, timestamp, query_time) == <<tokens, timestamp>>
\* _update: <<tokens, timestamp>>
Update(tokens, timestamp, query_time) ==
    IF kind = "scheduled"
    THEN IF GetLastRefill(query_time) > timestamp
         THEN <<Cap, GetLastRefill(query_time)>>
         ELSE <<tokens, query_time>>
    ELSE <<tokens + (query_time - timestamp) * rate, timestamp>>

\* _peek: the row written at time t, which is also the state tuple returned
PeekRow(table, t) ==
    LET known == IF table = <<>> THEN <<Cap, t>>
                 ELSE <<table[1].tokens, table[1].last>>
        upd == Update(known[1], known[2], t)
    IN  SetRow(upd[1], t)

CanConsumeLoose(tokens, n, leave) == tokens >= n /\ tokens >= leave
\* the test of try_consume
CanConsume(tokens, n, leave) == tokens >= n /\ tokens > leave

EstimateNow(tokens, timestamp, n, query_time) ==
    query_time * (IF kind = "classic" THEN rate ELSE 1)
\* _estimate, times TargetDen: the classic estimate is a fraction over rate
TargetDen == IF kind = "classic" THEN rate ELSE 1
Estimate(tokens, timestamp, n, query_time) ==
    IF kind = "scheduled"
    THEN IF tokens >= n * Unit THEN query_time ELSE GetNextRefill(query_time)
    ELSE timestamp * rate + (n * Unit - tokens)

\* TokenBucket.peek
Peek ==
    /\ kind # "ts" /\ pc = "idle"
    /\ LET row == PeekRow(tbf, now)
       IN  /\ tbf' = <<row>>
           /\ last' = [Call("peek", 0, 0) EXCEPT
                          !.tk = row.tokens, !.tokens = row.tokens, !.ts = row.last]
    /\ pc' = "done"
    /\ UNCHANGED <<kind, rate, period, now, rows, target>>
    /\ UNCHANGED concVars
    /\ UNCHANGED store

\* TokenBucket.set
Set(tokens, timestamp) ==
    /\ kind # "ts" /\ pc = "idle"
    /\ LET row == SetRow(tokens * Unit, OrElse(timestamp, now))
       IN  /\ tbf' = <<row>>
           /\ last' = [Call("set", tokens, 0) EXCEPT
                          !.qt = row.last, !.tokens = row.tokens, !.ts = row.last]
    /\ pc' = "done"
    /\ UNCHANGED <<kind, rate, period, now, rows, target>>
    /\ UNCHANGED concVars
    /\ UNCHANGED store

\* TokenBucket.try_consume on the table as it stands at time t:
\* the table left behind and the (success, tokens, timestamp) returned
TryConsumeRow(table, n, leave, t) ==
    LET seen == PeekRow(table, t)
    IN  IF CanConsume(seen.tokens, n * Unit, leave * Unit)
        THEN [ok |-> TRUE, tk |-> seen.tokens,
              row |-> SetRow(seen.tokens - n * Unit, seen.last)]
        ELSE [ok |-> FALSE, tk |-> seen.tokens, row |-> seen]

TryConsume(n, leave) ==
    /\ kind # "ts" /\ pc = "idle"
    /\ LET r == TryConsumeRow(tbf, n, OrElse(leave, 0), now)
       IN  /\ tbf' = <<r.row>>
           /\ last' = [Call("try_consume", n, OrElse(leave, 0)) EXCEPT
                          !.qt = now, !.tk = r.tk, !.ok = r.ok,
                          !.tokens = r.row.tokens, !.ts = r.row.last]
    /\ pc' = "done"
    /\ UNCHANGED <<kind, rate, period, now, rows, target>>
    /\ UNCHANGED concVars
    /\ UNCHANGED store

\* ------------------------------------------------------ TimeSeriesTokenBucket
InWindow(t, query_time) == t >= query_time - period /\ t <= query_time
\* the rows peek selects: time >= query_time - period and time <= query_time
Window(b, query_time) ==
    [t \in TimeVals |-> IF InWindow(t, query_time) THEN b[t] ELSE 0]
AllInWindow(b, query_time) ==
    \A t \in TimeVals : b[t] > 0 => InWindow(t, query_time)

TrimKeepAll(b) == b
TrimInclusive(b) ==
    IF ~HasRows(b) THEN b
    ELSE [t \in TimeVals |-> IF t <= Latest(b) - period THEN 0 ELSE b[t]]
\* _trim_default: delete the rows with time < max(time) - period
TrimDefault(b) ==
    IF ~HasRows(b) THEN b
    ELSE [t \in TimeVals |-> IF t < Latest(b) - period THEN 0 ELSE b[t]]

\* _record: insert one row per timestamp, then self.trim()
RecordRows(b, times) ==
    IF ~HasRows(times) THEN b ELSE TrimDefault(BagPlus(b, times))

\* what _mutate does to the rows once the mutator's result passed its assert:
\* record the added timestamps, then delete one row per removed timestamp
MutateRows(b, old_times, new_times) ==
    LET times_to_add == BagMinus(new_times, old_times)
        times_to_delete == BagMinus(old_times, new_times)
        recorded == IF HasRows(times_to_add) THEN RecordRows(b, times_to_add)
                    ELSE b
    IN  BagMinus(recorded, times_to_delete)

\* The contract of a callback, from the docstrings: a mutator and a fill return
\* timestamps within the window; fill and prune return exactly as many as asked
\* for; prune returns timestamps of the old list, each at most as often.
OutsideWindow(cb, query_time) ==
    \E t \in TimeVals : cb[t] > 0 /\ (t < query_time - period \/ t > query_time)
BrokenMutator(new_times, query_time) == OutsideWindow(new_times, query_time)
BrokenCallback(old_times, query_time, n, cb) ==
    LET tokens == rate - Count(old_times)
    IN  \/ /\ tokens > n
            /\ (Count(cb) # tokens - n \/ OutsideWindow(cb, query_time))
        \/ /\ tokens < n
            /\ \/ Count(cb) # n - tokens
               \/ OutsideWindow(cb, query_time)
               \/ \E t \in TimeVals : cb[t] > old_times[t]

MutatorUnchecked(new_times, query_time) == TRUE
\* the assert of _mutate on the mutator's result
MutatorAccepted(new_times, query_time) == AllInWindow(new_times, query_time)

\* The mutator set() builds.  cb is what the callback it calls (fill or prune)
\* returns.  The result is <<FALSE, _>> when one of its asserts fails and
\* <<TRUE, new_times>> otherwise.
SetMutator(times, query_time, n, cb) ==
    LET tokens == rate - Count(times)
    IN  IF tokens > n
        THEN IF Count(cb) = tokens - n /\ AllInWindow(cb, query_time)
             THEN <<TRUE, BagPlus(times, cb)>>
             ELSE <<FALSE, times>>
        ELSE IF tokens < n
        THEN IF Count(cb) = n - tokens /\ SubBag(cb, times)
             THEN <<TRUE, BagMinus(times, cb)>>
             ELSE <<FALSE, times>>
        ELSE <<TRUE, times>>

\* the k-th element (from 0) of sorted(times, key=lambda t: -t)
NthNewest(b, k) ==
    CHOOSE t \in TimeVals :
        /\ b[t] > 0
        /\ Count(b) - SumTo(b, t) <= k
        /\ k < Count(b) - SumTo(b, t) + b[t]

\* TimeSeriesTokenBucket._estimate
TSEstimate(times, query_time, n) ==
    IF rate - n >= Count(times) THEN query_time
    ELSE NthNewest(times, rate - n) + period

\* TimeSeriesTokenBucket.peek
TSPeek(query_time) ==
    /\ kind = "ts" /\ pc = "idle"
    /\ LET qt == OrElse(query_time, now)
           times == Window(rows, qt)
       IN  last' = [Call("peek", 0, 0) EXCEPT
                       !.qt = qt, !.tk = rate - Count(times),
                       !.tokens = rate - Count(times), !.times = times]
    /\ pc' = "done"
    /\ UNCHANGED <<kind, rate, period, now, tbf, rows, target>>
    /\ UNCHANGED concVars
    /\ UNCHANGED store

\* TimeSeriesTokenBucket.record
TSRecord(times) ==
    /\ kind = "ts" /\ pc = "idle"
    /\ Count(rows) + Count(times) <= MaxRows
    /\ rows' = RecordRows(rows, times)
    /\ last' = [Call("record", Count(times), 0) EXCEPT !.times = times]
    /\ pc' = "done"
    /\ UNCHANGED <<kind, rate, period, now, tbf, target>>
    /\ UNCHANGED concVars
    /\ UNCHANGED store

\* TimeSeriesTokenBucket.mutate, the mutator returning new_times
TSMutate(new_times, query_time) ==
    /\ kind = "ts" /\ pc = "idle"
    /\ LET qt == OrElse(query_time, now)
           old_times == Window(rows, qt)
       IN  IF MutatorAccepted(new_times, qt)
           THEN /\ rows' = MutateRows(rows, old_times, new_times)
                /\ Count(rows') <= MaxRows
                /\ last' = [Call("mutate", 0, 0) EXCEPT
                               !.qt = qt, !.tk = rate - Count(old_times),
                               !.broken = BrokenMutator(new_times, qt),
                               !.tokens = rate - Count(new_times),
                               !.times = new_times]
           ELSE /\ rows' = rows
                /\ last' = [Raised("mutate", 0, 0) EXCEPT
                               !.qt = qt,
                               !.broken = BrokenMutator(new_times, qt)]
    /\ pc' = "done"
    /\ UNCHANGED <<kind, rate, period, now, tbf, target>>
    /\ UNCHANGED concVars
    /\ UNCHANGED store

\* set(n, query_time) calls fill or prune only when its asserts on n pass and
\* the window does not already hold rate - n rows
CallbackCalled(n, qt) ==
    n >= 0 /\ n <= rate /\ rate - Count(Window(rows, qt)) # n

\* TimeSeriesTokenBucket.set, its fill or prune callback returning cb (nothing
\* when it is not called)
TSSet(n, query_time, cb) ==
    /\ kind = "ts" /\ pc = "idle"
    /\ CallbackCalled(n, OrElse(query_time, now)) \/ cb = EmptyBag
    /\ LET qt == OrElse(query_time, now)
           old_times == Window(rows, qt)
           m == SetMutator(old_times, qt, n, cb)
           broken == CallbackCalled(n, qt) /\ BrokenCallback(old_times, qt, n, cb)
       IN  IF n >= 0 /\ n <= rate /\ m[1] /\ MutatorAccepted(m[2], qt)
           THEN /\ rows' = MutateRows(rows, old_times, m[2])
                /\ Count(rows') <= MaxRows
                /\ last' = [Call("set", n, 0) EXCEPT
                               !.qt = qt, !.tk = rate - Count(old_times),
                               !.broken = broken,
                               !.tokens = rate - Count(m[2]), !.times = m[2]]
           ELSE /\ rows' = rows
                /\ last' = [Raised("set", n, 0) EXCEPT
                               !.qt = qt, !.broken = broken]
    /\ pc' = "done"
    /\ UNCHANGED <<kind, rate, period, now, tbf, target>>
    /\ UNCHANGED concVars
    /\ UNCHANGED store

\* TimeSeriesTokenBucket.try_consume on the rows as they stand at time t:
\* the rows left behind and the (success, tokens, times, query_time) returned
TSTryConsumeRows(b, n, leave, t) ==
    LET times == Window(b, t)
        tokens == rate - Count(times)
    IN  IF CanConsume(tokens, n, leave)
        THEN [ok |-> TRUE, tk |-> tokens,
              rows |-> RecordRows(b, Copies(t, n)),
              times |-> BagPlus(times, Copies(t, n))]
        ELSE [ok |-> FALSE, tk |-> tokens, rows |-> b, times |-> times]

\* the asserts of TimeSeriesTokenBucket.try_consume
TSArgsAccepted(n) == n > 0 /\ n <= rate

TSTryConsume(n, leave) ==
    /\ kind = "ts" /\ pc = "idle"
    /\ IF TSArgsAccepted(n)
       THEN LET r == TSTryConsumeRows(rows, n, OrElse(leave, 0), now)
            IN  /\ rows' = r.rows
                /\ last' = [Call("try_consume", n, OrElse(leave, 0)) EXCEPT
                               !.qt = now, !.tk = r.tk, !.ok = r.ok,
                               !.tokens = rate - Count(r.times),
                               !.times = r.times]
       ELSE /\ rows' = rows
            /\ last' = [Raised("try_consume", n, OrElse(leave, 0)) EXCEPT
                           !.qt = now]
    /\ pc' = "done"
    /\ UNCHANGED <<kind, rate, period, now, tbf, target>>
    /\ UNCHANGED concVars
    /\ UNCHANGED store

\* TimeSeriesTokenBucket.estimate: a peek at query_time, then _estimate with
\* its asserts on n; the estimate is returned in ts
TSEstimateCall(n, query_time) ==
    /\ kind = "ts" /\ pc = "idle"
    /\ LET qt == OrElse(query_time, now)
           times == Window(rows, qt)
       IN  IF TSArgsAccepted(n)
           THEN last' = [Call("estimate", n, 0) EXCEPT
                            !.qt = qt, !.tk = rate - Count(times),
                            !.tokens = rate - Count(times), !.times = times,
                            !.ts = TSEstimate(times, qt, n)]
           ELSE last' = [Raised("estimate", n, 0) EXCEPT !.qt = qt]
    /\ pc' = "done"
    /\ UNCHANGED <<kind, rate, period, now, tbf, rows, target>>
    /\ UNCHANGED concVars
    /\ UNCHANGED store

\* ------------------------------------------------------------- consume()
\* consume() entered: TokenBucket.consume asserts n > 0 before its loop,
\* TimeSeriesTokenBucket.consume goes straight into the loop
ConsumeCall(n, leave) ==
    /\ pc = "idle"
    /\ IF kind # "ts" /\ ~(n > 0)
       THEN /\ last' = Raised("consume", n, OrElse(leave, 0))
            /\ pc' = "done"
       ELSE /\ last' = [Call("consume", n, OrElse(leave, 0)) EXCEPT
                           !.done = FALSE]
            /\ pc' = "try"
    /\ UNCHANGED <<kind, rate, period, now, tbf, rows, target>>
    /\ UNCHANGED concVars
    /\ UNCHANGED store

\* one try_consume of the loop, and the return on success
ConsumeTry ==
    /\ pc = "try"
    /\ IF kind # "ts"
       THEN LET r == TryConsumeRow(tbf, last.n, last.leave, now)
            IN  /\ tbf' = <<r.row>>
                /\ rows' = rows
                /\ last' = [last EXCEPT
                               !.done = r.ok, !.ok = r.ok, !.qt = now,
                               !.tk = r.tk, !.tokens = r.row.tokens,
                               !.ts = r.row.last]
                /\ pc' = IF r.ok THEN "done" ELSE "estimate"
       ELSE IF TSArgsAccepted(last.n)
       THEN LET r == TSTryConsumeRows(rows, last.n, last.leave, now)
            IN  /\ rows' = r.rows
                /\ tbf' = tbf
                /\ last' = [last EXCEPT
                               !.done = r.ok, !.ok = r.ok, !.qt = now,
                               !.tk = r.tk, !.tokens = rate - Count(r.times),
                               !.times = r.times]
                /\ pc' = IF r.ok THEN "done" ELSE "estimate"
       ELSE /\ UNCHANGED <<tbf, rows>>
            /\ last' = [last EXCEPT !.done = TRUE, !.err = TRUE, !.qt = now]
            /\ pc' = "done"
    /\ UNCHANGED <<kind, rate, period, now, target>>
    /\ UNCHANGED concVars
    /\ UNCHANGED store

\* after a failed try_consume: read the clock, estimate, sleep if the target
\* is still ahead
ConsumeEstimate ==
    /\ pc = "estimate"
    /\ LET tgt == IF kind = "ts"
                  THEN TSEstimate(last.times, last.qt, last.n)
                  ELSE Estimate(last.tokens, last.ts, last.n, now)
       IN  IF tgt > now * TargetDen
           THEN pc' = "sleep" /\ target' = tgt
           ELSE pc' = "try" /\ target' = target
    /\ UNCHANGED <<kind, rate, period, now, tbf, rows, last>>
    /\ UNCHANGED concVars
    /\ UNCHANGED store

\* time.sleep(wait) returns once the target time is reached
ConsumeWake ==
    /\ pc = "sleep"
    /\ now * TargetDen >= target
    /\ pc' = "try"
    /\ target' = 0
    /\ UNCHANGED <<kind, rate, period, now, tbf, rows, last>>
    /\ UNCHANGED concVars
    /\ UNCHANGED store

\* ------------------------------------------------- the caller and the clock
\* the call has returned (or raised) and the caller goes on to its next call
Return ==
    /\ pc = "done"
    /\ pc' = "idle"
    /\ last' = Blank
    /\ UNCHANGED <<kind, rate, period, now, tbf, rows, target>>
    /\ UNCHANGED concVars
    /\ UNCHANGED store

\* time.time() reads one tick later; a caller holding a returned result has
\* gone on by then
Tick ==
    /\ now < MaxTime
    /\ now' = now + 1
    /\ pc' = IF pc = "done" THEN "idle" ELSE pc
    /\ last' = IF pc = "done" THEN Blank ELSE last
    /\ UNCHANGED <<kind, rate, period, tbf, rows, target>>
    /\ UNCHANGED concVars
    /\ UNCHANGED store

\* --------------------------------------- one caller, every public operation
ConcIdle ==
    /\ lock = <<>>
    /\ journal = <<>>
    /\ cpc = [p \in Procs |-> "idle"]
    /\ creq = [p \in Procs |-> [n |-> 0, leave |-> 0, wait |-> FALSE]]
    /\ cobs = [p \in Procs |-> [times |-> EmptyBag, qt |-> 0, tokens |-> 0]]
    /\ ctarget = [p \in Procs |-> 0]
    /\ granted = EmptyBag

Init ==
    /\ kind \in Kinds
    /\ rate \in 1..MaxRate
    /\ period \in 1..MaxPeriod
    /\ now = 0
    /\ tbf = <<>>
    /\ rows = EmptyBag
    /\ pc = "idle"
    /\ target = 0
    /\ last = Blank
    /\ ConcIdle
    /\ store = EmptyStore

Next ==
    \/ Tick
    \/ Return
    \/ Peek
    \/ \E tokens \in (0 - 1)..(MaxRate + 1), timestamp \in OptTimes :
           Set(tokens, timestamp)
    \/ \E n \in NArgs, leave \in LeaveArgs : TryConsume(n, leave)
    \/ \E query_time \in OptTimes : TSPeek(query_time)
    \/ \E times \in Lists : TSRecord(times)
    \/ \E n \in NArgs, leave \in LeaveArgs : TSTryConsume(n, leave)
    \/ \E n \in NArgs, leave \in LeaveArgs : ConsumeCall(n, leave)
    \/ ConsumeTry
    \/ ConsumeEstimate
    \/ ConsumeWake

Spec == Init /\ [][Next]_vars

\* ------------------------- one caller of try_consume and consume, clock running
\* No other caller touches the key.  The clock keeps advancing (up to MaxTime)
\* and a caller inside consume keeps taking its next step.
NextConsume ==
    \/ Tick
    \/ Return
    \/ \E n \in NArgs, leave \in LeaveArgs : TryConsume(n, leave)
    \/ \E n \in NArgs, leave \in LeaveArgs : TSTryConsume(n, leave)
    \/ \E n \in NArgs, leave \in LeaveArgs : ConsumeCall(n, leave)
    \/ ConsumeTry
    \/ ConsumeEstimate
    \/ ConsumeWake

SpecConsume ==
    /\ Init
    /\ [][NextConsume]_vars
    /\ WF_vars(Tick)
    /\ WF_vars(ConsumeTry)
    /\ WF_vars(ConsumeEstimate)
    /\ WF_vars(ConsumeWake)

\* ------------- the scenario of a classic bucket with rate = 10, period = 10
\* One caller issues try_consume(3) and try_consume(8) as it likes while the
\* clock runs from 0 to 5.
InitScenario ==
    /\ kind = "classic"
    /\ rate = 10
    /\ period = 10
    /\ now = 0
    /\ tbf = <<>>
    /\ rows = EmptyBag
    /\ pc = "idle"
    /\ target = 0
    /\ last = Blank
    /\ ConcIdle
    /\ store = EmptyStore

\* time.time() reads one second later
ScenarioTick ==
    /\ now < 5
    /\ now' = now + 1
    /\ pc' = IF pc = "done" THEN "idle" ELSE pc
    /\ last' = IF pc = "done" THEN Blank ELSE last
    /\ UNCHANGED <<kind, rate, period, tbf, rows, target>>
    /\ UNCHANGED concVars
    /\ UNCHANGED store

NextScenario ==
    \/ ScenarioTick
    \/ Return
    \/ \E n \in {3, 8} : TryConsume(n, None)

SpecScenario == InitScenario /\ [][NextScenario]_vars

\* ------------ the scenario of a scheduled bucket with rate = 5, period = 60 s
\* The clock counts half seconds, so that 60.5 s is the instant 121: the period
\* is 120 and the caller arrives at 58 s.  One caller peeks and issues
\* try_consume(2) and try_consume(5) as it likes until 61 s.
InitSchedule ==
    /\ kind = "scheduled"
    /\ rate = 5
    /\ period = 120
    /\ now = 116
    /\ tbf = <<>>
    /\ rows = EmptyBag
    /\ pc = "idle"
    /\ target = 0
    /\ last = Blank
    /\ ConcIdle
    /\ store = EmptyStore

\* time.time() reads half a second later
ScheduleTick ==
    /\ now < 122
    /\ now' = now + 1
    /\ pc' = IF pc = "done" THEN "idle" ELSE pc
    /\ last' = IF pc = "done" THEN Blank ELSE last
    /\ UNCHANGED <<kind, rate, period, tbf, rows, target>>
    /\ UNCHANGED concVars
    /\ UNCHANGED store

NextSchedule ==
    \/ ScheduleTick
    \/ Return
    \/ Peek
    \/ \E n \in {2, 5} : TryConsume(n, None)

SpecSchedule == InitSchedule /\ [][NextSchedule]_vars

\* ------------------- one caller reconciling a time-series bucket (mutate, set)
InitReconcile == Init /\ kind = "ts"

NextReconcile ==
    \/ Tick
    \/ Return
    \/ \E query_time \in OptTimes : TSPeek(query_time)
    \/ \E times \in Lists : TSRecord(times)
    \/ \E new_times \in Lists, query_time \in OptTimes :
           TSMutate(new_times, query_time)
    \/ \E n \in (0 - 1)..(MaxRate + 1), query_time \in OptTimes,
          cb \in Callbacks :
           TSSet(n, query_time, cb)
    \/ \E n \in NArgs, leave \in LeaveArgs : TSTryConsume(n, leave)
    \/ \E n \in NArgs, query_time \in OptTimes : TSEstimateCall(n, query_time)

SpecReconcile == InitReconcile /\ [][NextReconcile]_vars

\* ------------------------ several callers of try_consume/consume on one key
\* Each caller runs try_consume statement by statement: begin immediate, the
\* peek, the test with _set or _record, commit.
NoRequest == [n |-> 0, leave |-> 0, wait |-> FALSE]
NoPeek == [times |-> EmptyBag, qt |-> 0, tokens |-> 0]

BeginUnlocked == TRUE
\* _begin: "begin immediate" returns once no other connection holds the write
\* lock
CanBegin == lock = <<>>

CommitDeferred(p) == IF creq[p].wait THEN <<p>> ELSE <<>>
\* _begin: the write lock once the with block has been left by commit (or
\* rollback), whoever the caller p is
AfterCommit(p) == <<>>

\* try_consume(n, leave) (wait = FALSE) or consume(n, leave) (wait = TRUE) with
\* arguments its asserts accept
CCall(p, n, leave, wait) ==
    /\ cpc[p] = "idle"
    /\ TSArgsAccepted(n)
    /\ creq' = [creq EXCEPT ![p] = [n |-> n, leave |-> OrElse(leave, 0),
                                    wait |-> wait]]
    /\ cpc' = [cpc EXCEPT ![p] = "begin"]
    /\ UNCHANGED <<kind, rate, period, now, tbf, rows>>
    /\ UNCHANGED seqVars
    /\ UNCHANGED store
    /\ UNCHANGED <<lock, journal, cobs, ctarget, granted>>

\* with self._begin(): begin immediate
CBegin(p) ==
    /\ cpc[p] = "begin"
    /\ CanBegin
    /\ lock' = <<p>>
    /\ journal' = <<[tbf |-> tbf, rows |-> rows]>>
    /\ cpc' = [cpc EXCEPT ![p] = "peek"]
    /\ UNCHANGED <<kind, rate, period, now, tbf, rows>>
    /\ UNCHANGED seqVars
    /\ UNCHANGED store
    /\ UNCHANGED <<creq, cobs, ctarget, granted>>

\* _, times, query_time = self.peek() on a time-series bucket;
\* tokens, timestamp = self._peek(), which writes the refreshed row, on the others
CPeek(p) ==
    /\ cpc[p] = "peek"
    /\ IF kind = "ts"
       THEN /\ cobs' = [cobs EXCEPT ![p] =
                           [times |-> Window(rows, now), qt |-> now,
                            tokens |-> rate - Count(Window(rows, now))]]
            /\ tbf' = tbf
       ELSE LET row == PeekRow(tbf, now)
            IN  /\ tbf' = <<row>>
                /\ cobs' = [cobs EXCEPT ![p] =
                               [times |-> EmptyBag, qt |-> row.last,
                                tokens |-> row.tokens]]
    /\ cpc' = [cpc EXCEPT ![p] = "decide"]
    /\ UNCHANGED <<kind, rate, period, now, rows>>
    /\ UNCHANGED seqVars
    /\ UNCHANGED store
    /\ UNCHANGED <<lock, journal, creq, ctarget, granted>>

\* the test, _record or _set on success, and the commit that ends the with
\* block
CDecide(p) ==
    /\ cpc[p] = "decide"
    /\ LET new_times == Copies(cobs[p].qt, creq[p].n)
       IN  IF CanConsume(cobs[p].tokens, creq[p].n * Unit, creq[p].leave * Unit)
           THEN /\ IF kind = "ts"
                   THEN rows' = RecordRows(rows, new_times) /\ tbf' = tbf
                   ELSE /\ tbf' = <<SetRow(cobs[p].tokens - creq[p].n * Unit,
                                           cobs[p].qt)>>
                        /\ rows' = rows
                /\ granted' = BagPlus(granted, new_times)
                /\ cpc' = [cpc EXCEPT ![p] = "idle"]
                /\ creq' = [creq EXCEPT ![p] = NoRequest]
                /\ cobs' = [cobs EXCEPT ![p] = NoPeek]
           ELSE /\ UNCHANGED <<tbf, rows, granted>>
                /\ IF creq[p].wait
                   THEN /\ cpc' = [cpc EXCEPT ![p] = "estimate"]
                        /\ UNCHANGED <<creq, cobs>>
                   ELSE /\ cpc' = [cpc EXCEPT ![p] = "idle"]
                        /\ creq' = [creq EXCEPT ![p] = NoRequest]
                        /\ cobs' = [cobs EXCEPT ![p] = NoPeek]
    /\ lock' = AfterCommit(p)
    /\ journal' = <<>>
    /\ UNCHANGED <<kind, rate, period, now, ctarget>>
    /\ UNCHANGED seqVars
    /\ UNCHANGED store

\* consume after a failed try_consume: estimate, read the clock, sleep if the
\* target is still ahead
CEstimate(p) ==
    /\ cpc[p] = "estimate"
    /\ LET tgt == IF kind = "ts"
                  THEN TSEstimate(cobs[p].times, cobs[p].qt, creq[p].n)
                  ELSE Estimate(cobs[p].tokens, cobs[p].qt, creq[p].n, now)
       IN  IF tgt > now * TargetDen
           THEN /\ cpc' = [cpc EXCEPT ![p] = "sleep"]
                /\ ctarget' = [ctarget EXCEPT ![p] = tgt]
           ELSE /\ cpc' = [cpc EXCEPT ![p] = "begin"]
                /\ UNCHANGED ctarget
    /\ cobs' = [cobs EXCEPT ![p] = NoPeek]
    /\ UNCHANGED <<kind, rate, period, now, tbf, rows>>
    /\ UNCHANGED seqVars
    /\ UNCHANGED store
    /\ UNCHANGED <<lock, journal, creq, granted>>

\* time.sleep(wait) returns once the target time is reached
CWake(p) ==
    /\ cpc[p] = "sleep"
    /\ now * TargetDen >= ctarget[p]
    /\ cpc' = [cpc EXCEPT ![p] = "begin"]
    /\ ctarget' = [ctarget EXCEPT ![p] = 0]
    /\ UNCHANGED <<kind, rate, period, now, tbf, rows>>
    /\ UNCHANGED seqVars
    /\ UNCHANGED store
    /\ UNCHANGED <<lock, journal, creq, cobs, granted>>

InitConcurrent == Init /\ kind = "ts"

NextConcurrent ==
    \/ Tick
    \/ \E p \in Procs, n \in 1..MaxRate, leave \in LeaveArgs,
          wait \in BOOLEAN :
           CCall(p, n, leave, wait)
    \/ \E p \in Procs : CBegin(p)
    \/ \E p \in Procs : CPeek(p)
    \/ \E p \in Procs : CDecide(p)
    \/ \E p \in Procs : CEstimate(p)
    \/ \E p \in Procs : CWake(p)

SpecConcurrent == InitConcurrent /\ [][NextConcurrent]_vars

\* the same callers on a bucket of any of the three classes
SpecContend == Init /\ [][NextConcurrent]_vars

\* ------------------------------------------------- failures of the store
\* A statement sent to SQLite may fail (the busy timeout expires, the disk is
\* full, the file cannot be read or written) and apsw raises.
\* What another connection reads and what outlives this one: the tables as
\* last committed.
Persisted ==
    IF journal = <<>> THEN [tbf |-> tbf, rows |-> rows] ELSE journal[1]

\* the exception leaves try_consume or consume of caller p
Raise(p) ==
    /\ cpc' = [cpc EXCEPT ![p] = "raised"]
    /\ creq' = [creq EXCEPT ![p] = NoRequest]
    /\ cobs' = [cobs EXCEPT ![p] = NoPeek]

\* the tables once the body of try_consume has run on what caller p peeked
Written(p) ==
    IF ~CanConsume(cobs[p].tokens, creq[p].n * Unit, creq[p].leave * Unit)
    THEN [tbf |-> tbf, rows |-> rows]
    ELSE IF kind = "ts"
    THEN [tbf |-> tbf,
          rows |-> RecordRows(rows, Copies(cobs[p].qt, creq[p].n))]
    ELSE [tbf |-> <<SetRow(cobs[p].tokens - creq[p].n * Unit, cobs[p].qt)>>,
          rows |-> rows]

\* _begin: "begin immediate" fails on a connection with no transaction open;
\* it stands before the try block, so the exception leaves _begin as it is
CFailBegin(p) ==
    /\ cpc[p] = "begin"
    /\ lock # <<p>>
    /\ Raise(p)
    /\ UNCHANGED <<kind, rate, period, now, tbf, rows>>
    /\ UNCHANGED seqVars
    /\ UNCHANGED store
    /\ UNCHANGED <<lock, journal, ctarget, granted>>

\* _begin: "begin immediate" on a connection whose transaction is still open;
\* SQLite refuses to start a transaction within a transaction
CBeginNested(p) ==
    /\ cpc[p] = "begin"
    /\ lock = <<p>>
    /\ Raise(p)
    /\ UNCHANGED <<kind, rate, period, now, tbf, rows>>
    /\ UNCHANGED seqVars
    /\ UNCHANGED store
    /\ UNCHANGED <<lock, journal, ctarget, granted>>

\* _begin: a statement of the body fails; the except clause rolls back and
\* raises again
CFailBody(p) ==
    /\ cpc[p] \in {"peek", "decide"}
    /\ tbf' = journal[1].tbf
    /\ rows' = journal[1].rows
    /\ lock' = <<>>
    /\ journal' = <<>>
    /\ Raise(p)
    /\ UNCHANGED <<kind, rate, period, now>>
    /\ UNCHANGED seqVars
    /\ UNCHANGED store
    /\ UNCHANGED <<ctarget, granted>>

\* _begin: the body has run and the "commit" of the else clause fails; no
\* handler surrounds it.  SQLite has either rolled the transaction back on its
\* own (rolled_back: a full disk, an I/O error) or left it open (a busy store).
CFailCommit(p, rolled_back) ==
    /\ cpc[p] = "decide"
    /\ IF rolled_back
       THEN /\ tbf' = journal[1].tbf
            /\ rows' = journal[1].rows
            /\ lock' = <<>>
            /\ journal' = <<>>
       ELSE /\ tbf' = Written(p).tbf
            /\ rows' = Written(p).rows
            /\ UNCHANGED <<lock, journal>>
    /\ Raise(p)
    /\ UNCHANGED <<kind, rate, period, now>>
    /\ UNCHANGED seqVars
    /\ UNCHANGED store
    /\ UNCHANGED <<ctarget, granted>>

\* the caller has caught the exception and goes on
CCatch(p) ==
    /\ cpc[p] = "raised"
    /\ cpc' = [cpc EXCEPT ![p] = "idle"]
    /\ UNCHANGED <<kind, rate, period, now, tbf, rows>>
    /\ UNCHANGED seqVars
    /\ UNCHANGED store
    /\ UNCHANGED <<lock, journal, creq, cobs, ctarget, granted>>

NextFailure ==
    \/ NextConcurrent
    \/ \E p \in Procs : CFailBegin(p)
    \/ \E p \in Procs : CBeginNested(p)
    \/ \E p \in Procs : CFailBody(p)
    \/ \E p \in Procs, rolled_back \in BOOLEAN : CFailCommit(p, rolled_back)
    \/ \E p \in Procs : CCatch(p)

SpecFailure == Init /\ [][NextFailure]_vars

\* ------------------------------------------ two keys in one database file
\* Two bucket objects of the same class, rate and period, with the keys of
\* Keys, on one file.  A table is kept by key; each statement below is the SQL
\* statement with its where clause.

\* insert or replace into tbf (key, tokens, last): key is the primary key
TbfReplace(table, key, row) ==
    [k \in Keys |-> IF k = key THEN <<row>> ELSE table[k]]

\* insert into ts_token_bucket (key, time) values (?, ?), one row per timestamp
TsInsert(table, key, times) ==
    [k \in Keys |-> IF k = key THEN BagPlus(table[k], times) ELSE table[k]]

TsDeleteBeforeAnyKey(table, key, bound) ==
    [k \in Keys |-> [t \in TimeVals |-> IF t < bound THEN 0 ELSE table[k][t]]]
\* delete from ts_token_bucket where key = ? and time < ?
TsDeleteBefore(table, key, bound) ==
    [k \in Keys |->
        [t \in TimeVals |-> IF k = key /\ t < bound THEN 0 ELSE table[k][t]]]

\* delete from ts_token_bucket where rowid = (select rowid ... where key = ?
\* and time = ? limit 1), once per timestamp
TsDeleteEach(table, key, times) ==
    [k \in Keys |-> IF k = key THEN BagMinus(table[k], times) ELSE table[k]]

\* _trim_default: select max(time) where key = ?, then the delete
TsTrim(table, key) ==
    IF ~HasRows(table[key]) THEN table
    ELSE TsDeleteBefore(table, key, Latest(table[key]) - period)

\* _record
TsRecord(table, key, times) ==
    IF ~HasRows(times) THEN table ELSE TsTrim(TsInsert(table, key, times), key)

\* _mutate with a mutator that returns new_times
TsMutate(table, key, new_times, query_time) ==
    LET old_times == Window(table[key], query_time)
        times_to_add == BagMinus(new_times, old_times)
        times_to_delete == BagMinus(old_times, new_times)
    IN  IF ~MutatorAccepted(new_times, query_time) THEN table
        ELSE TsDeleteEach(TsRecord(table, key, times_to_add), key,
                          times_to_delete)

\* TimeSeriesTokenBucket.try_consume at time t
TsTryConsume(table, key, n, leave, t) ==
    IF /\ TSArgsAccepted(n)
       /\ CanConsume(rate - Count(Window(table[key], t)), n, leave)
    THEN TsRecord(table, key, Copies(t, n))
    ELSE table

\* a call and its arguments
KeyCall(op, n, leave, times) ==
    [op |-> op, n |-> n, leave |-> leave, times |-> times]
\* the calls the two objects make
KeyCalls ==
    IF kind = "ts"
    THEN {KeyCall("trim", 0, 0, EmptyBag)}
         \cup {KeyCall("try_consume", n, 0, EmptyBag) : n \in 1..MaxRate}
         \cup {KeyCall("record", 0, 0, times) :
                   times \in {b \in BagsUpTo(2) : HasRows(b)}}
         \cup {KeyCall("mutate", 0, 0, times) : times \in BagsUpTo(1)}
    ELSE {KeyCall("peek", 0, 0, EmptyBag)}
         \cup {KeyCall("try_consume", n, leave, EmptyBag) :
                   n \in 1..MaxRate, leave \in 0..1}
         \cup {KeyCall("set", n, t, EmptyBag) : n \in 0..MaxRate, t \in TimeVals}

\* the tables after the object with this key has made the call c at time t
\* (set is called with timestamp c.leave, mutate with the default query time)
StoreCall(s, key, c, t) ==
    IF kind = "ts"
    THEN [s EXCEPT !.ts =
             IF c.op = "trim" THEN TsTrim(s.ts, key)
             ELSE IF c.op = "record" THEN TsRecord(s.ts, key, c.times)
             ELSE IF c.op = "mutate" THEN TsMutate(s.ts, key, c.times, t)
             ELSE TsTryConsume(s.ts, key, c.n, c.leave, t)]
    ELSE [s EXCEPT !.tbf =
             IF c.op = "peek" THEN TbfReplace(s.tbf, key, PeekRow(s.tbf[key], t))
             ELSE IF c.op = "set"
             THEN TbfReplace(s.tbf, key, SetRow(c.n * Unit, c.leave))
             ELSE TbfReplace(s.tbf, key,
                             TryConsumeRow(s.tbf[key], c.n, c.leave, t).row)]

\* the object with this key makes the call c
KeyedCall(key, c) ==
    /\ store' = StoreCall(store, key, c, now)
    /\ \A k \in Keys : Count(store'.ts[k]) <= MaxRows
    /\ UNCHANGED <<kind, rate, period, now, tbf, rows>>
    /\ UNCHANGED <<pc, target, last>>
    /\ UNCHANGED <<lock, journal, cpc, creq, cobs, ctarget, granted>>

NextKeys ==
    \/ Tick
    \/ \E key \in Keys, c \in KeyCalls : KeyedCall(key, c)

SpecKeys == Init /\ [][NextKeys]_vars

\* ================================================================ properties
\* n tokens in the units the bucket counts in
Tokens(n) == IF kind = "ts" THEN n ELSE n * period
\* the number of tokens handed out with a timestamp in the closed interval
\* [a, b]
GrantedIn(a, b) == SumTo(granted, IF b > MaxTime THEN MaxTime ELSE b)
                   - SumTo(granted, a - 1)
\* what a peek at the present instant would report
PeekTokens ==
    IF kind = "ts" THEN rate - Count(Window(rows, now))
    ELSE PeekRow(tbf, now).tokens

\* C1: with any number of callers interleaving try_consume and consume on one
\* time-series key under a clock that never runs backwards, every closed
\* interval of length period holds at most rate granted token timestamps.
C1_SlidingWindowLimit ==
    \A a \in (0 - MaxPeriod)..MaxTime : GrantedIn(a, a + period) <= rate
\* a caller sleeps in consume behind a full window after the window has slid:
\* more than rate tokens were granted in all
C1_Witness ==
    /\ \E p \in Procs : cpc[p] = "sleep"
    /\ \E a \in TimeVals : GrantedIn(a, a + period) = rate
    /\ Count(granted) > rate

\* C2: whatever peek, set, try_consume and consume calls were made on a
\* classic bucket, with whatever arguments, the tokens value of the key's row
\* lies in [0, rate].
C2_TokensInRange ==
    (kind # "ts" /\ tbf # <<>>) =>
        (tbf[1].tokens >= 0 /\ tbf[1].tokens <= Tokens(rate))
\* set was called with more than rate tokens and the row holds exactly rate
C2_Witness ==
    /\ kind = "classic" /\ last.op = "set" /\ last.n > rate
    /\ tbf # <<>> /\ tbf[1].tokens = Tokens(rate)

\* C3: after any public operation on a time-series bucket returns, the number
\* of rows in the window ending now is between 0 and rate.
C3_WindowCountInRange ==
    (kind = "ts" /\ last.op # "none" /\ last.done) =>
        (Count(Window(rows, now)) >= 0 /\ Count(Window(rows, now)) <= rate)

\* C4: a try_consume(n, leave) that observed tk tokens succeeded exactly when
\* tk >= n and tk > leave, so it failed when tk = leave; on success it returned
\* tk - n tokens and on failure tk tokens.
C4_TryConsumeResult ==
    (last.op = "try_consume" /\ ~last.err) =>
        /\ last.ok <=> (last.tk >= Tokens(last.n) /\ last.tk > Tokens(last.leave))
        /\ last.tokens = IF last.ok THEN last.tk - Tokens(last.n) ELSE last.tk
\* C4, for the calls with n > 0 alone: the same test and the same result
C4_TryConsumeTest ==
    (last.op = "try_consume" /\ ~last.err) =>
        /\ last.ok <=> (last.tk >= Tokens(last.n) /\ last.tk > Tokens(last.leave))
        /\ last.n > 0 =>
               last.tokens = IF last.ok THEN last.tk - Tokens(last.n) ELSE last.tk
\* a call that found exactly leave tokens, enough for n, and failed
C4_Witness ==
    /\ last.op = "try_consume" /\ ~last.err /\ last.n > 0
    /\ last.tk = Tokens(last.leave) /\ last.tk >= Tokens(last.n)
    /\ ~last.ok

\* C5: when try_consume(n, leave) or consume(n, leave) succeeds, the bucket
\* still holds at least leave tokens after the n tokens are removed.
C5_LeaveIsLeft ==
    (last.op \in {"try_consume", "consume"} /\ last.done /\ last.ok
     /\ last.n > 0) =>
        (last.tokens >= Tokens(last.leave) /\ PeekTokens >= Tokens(last.leave))

\* C6: a try_consume(n) with n > 0 changes what a peek at the same instant
\* reports by exactly n on success and not at all on failure, and a failed
\* time-series try_consume inserts and deletes no row.
C6_TryConsumeFrame ==
    [][(last'.op = "try_consume" /\ ~last'.err /\ last'.n > 0) =>
           IF last'.ok
           THEN PeekTokens' = PeekTokens - Tokens(last'.n)
           ELSE PeekTokens' = PeekTokens /\ rows' = rows]_vars

\* C7: try_consume(n) and consume(n) with n <= 0 are rejected with an error
\* and change nothing that is stored.
C7_NonPositiveRejected ==
    [][(last'.op \in {"try_consume", "consume"} /\ last'.n <= 0) =>
           /\ last'.done => last'.err
           /\ tbf' = tbf /\ rows' = rows
           /\ PeekTokens' = PeekTokens]_vars

\* C8: after set(n, query_time) returns on a time-series bucket, exactly
\* rate - n rows have their time in [query_time - period, query_time].
C8_SetLeavesExactly ==
    (kind = "ts" /\ last.op = "set" /\ ~last.err) =>
        Count(Window(rows, last.qt)) = rate - last.n

\* C9: after mutate(mutator, query_time) returns, the multiset of stored
\* timestamps in [query_time - period, query_time] is the multiset the mutator
\* returned.
C9_MutateStoresResult ==
    (kind = "ts" /\ last.op = "mutate" /\ ~last.err) =>
        Window(rows, last.qt) = last.times

\* C10: a mutate or set whose callback returns a timestamp outside the window,
\* the wrong number of timestamps, or a prune result that is no sub-multiset
\* of the window, fails with an error and leaves the stored rows as they were.
C10_BrokenCallbackRejected ==
    [][(last'.op \in {"mutate", "set"} /\ last'.broken) =>
           (last'.err /\ rows' = rows)]_vars
\* a set with an acceptable n, on a bucket that holds rows, was refused for its
\* callback
C10_Witness ==
    /\ last.op = "set" /\ last.n >= 0 /\ last.n <= rate
    /\ last.broken /\ last.err /\ HasRows(rows)

\* C11: a caller sleeping in consume, on a bucket of any class, holds no write
\* lock on the store.
C11_NoSleepInTransaction ==
    \A p \in Procs : cpc[p] = "sleep" => lock # <<p>>
\* one caller sleeps in consume while another is inside its transaction
C11_Witness ==
    \E p, q \in Procs : p # q /\ cpc[p] = "sleep" /\ lock = <<q>>

C13_EstimateSuffices ==
    (kind # "ts" /\ pc \in {"estimate", "sleep"} /\ last.op = "consume"
     /\ last.leave = 0 /\ last.n > 0 /\ last.n <= rate) =>
        LET tgt == IF pc = "sleep" THEN target
                   ELSE Estimate(last.tokens, last.ts, last.n, now)
        IN  \A t \in now..MaxTime :
                t * TargetDen >= tgt => TryConsumeRow(tbf, last.n, 0, t).ok
\* a lone consume sleeps towards a target the clock can reach
C13_Witness ==
    /\ kind = "classic" /\ pc = "sleep" /\ last.op = "consume"
    /\ last.leave = 0 /\ last.n > 0 /\ last.n <= rate
    /\ target > now * TargetDen /\ target <= MaxTime * TargetDen

\* C14: estimate(n, query_time) with 0 < n <= rate on a time-series bucket
\* returns a time T >= query_time at which, nothing else having happened, a
\* peek reports at least n tokens and try_consume(n) succeeds, and no earlier
\* time from query_time on has n tokens.
C14_EstimateIsEarliest ==
    (kind = "ts" /\ last.op = "estimate" /\ ~last.err) =>
        /\ last.ts >= last.qt
        /\ rate - Count(Window(rows, last.ts)) >= last.n
        /\ TSTryConsumeRows(rows, last.n, 0, last.ts).ok
        /\ \A t \in last.qt..(last.ts - 1) :
               rate - Count(Window(rows, t)) < last.n
\* C14, with the first instant after the estimate in place of the estimate
\* itself when query_time has fewer than n tokens, on a bucket that holds no
\* row later than query_time
C14_EstimateIsLastShort ==
    (kind = "ts" /\ last.op = "estimate" /\ ~last.err
     /\ \A t \in TimeVals : rows[t] > 0 => t <= last.qt) =>
        LET T == IF last.tokens >= last.n THEN last.ts ELSE last.ts + 1
        IN  /\ rate - Count(Window(rows, T)) >= last.n
            /\ TSTryConsumeRows(rows, last.n, 0, T).ok
            /\ \A t \in last.qt..(T - 1) :
                   rate - Count(Window(rows, t)) < last.n

\* C15: when the store fails during a call, at begin immediate, inside the
\* body or at commit, the error reaches the caller, what is persisted is what
\* it was before, and the caller's connection is left with no open
\* transaction.
C15_FailureAborts ==
    [][\A p \in Procs :
           (cpc[p] # "raised" /\ cpc'[p] = "raised") =>
               /\ Persisted' = Persisted
               /\ lock' # <<p>>]_vars
\* C15, for a failure at begin immediate or inside the body, and for a failed
\* commit that SQLite rolled back itself
C15_FailureBeforeCommitAborts ==
    [][\A p \in Procs :
           (CFailBegin(p) \/ CFailBody(p) \/ CFailCommit(p, TRUE)) =>
               /\ cpc'[p] = "raised"
               /\ Persisted' = Persisted
               /\ lock' # <<p>>]_vars
\* a caller that is in no call while its connection holds the write lock
C15_OpenTransactionLeft ==
    \E p \in Procs : cpc[p] = "idle" /\ lock = <<p>>

\* C16: peek on a classic bucket at time t with the row (k, t0) stored returns
\* and stores (clamp(k + (t - t0) * rate / period, 0, rate), t), and with no
\* row stored it returns and stores (rate, t).  Tokens are in units of 1/period.
C16_PeekRefills ==
    [][(kind = "classic" /\ last'.op = "peek") =>
           LET refilled == IF tbf = <<>> THEN rate * period
                           ELSE tbf[1].tokens + (now - tbf[1].last) * rate
               clamped == IF refilled < 0 THEN 0
                          ELSE IF refilled > rate * period THEN rate * period
                          ELSE refilled
           IN  /\ tbf' = <<[tokens |-> clamped, last |-> now]>>
               /\ last'.tokens = clamped /\ last'.ts = now]_vars
\* a peek found a classic bucket partly refilled: more tokens than were stored,
\* fewer than rate
C16_Witness ==
    /\ kind = "classic" /\ last.op = "peek" /\ tbf # <<>>
    /\ last.tokens > 0 /\ last.tokens < rate * period /\ last.tokens % period # 0
    /\ tbf[1].tokens = last.tokens /\ tbf[1].last = now /\ now > 0

\* C17: on a fresh classic bucket with rate = 10 and period = 10,
\* try_consume(3) at t = 0 returns (true, 7, 0); then try_consume(8) at t = 0
\* returns (false, 7, 0); then try_consume(8) at t = 5 succeeds with about 4.5
\* tokens left (between 4 and 5) and timestamp 5.
C17_Scenario ==
    [][(last'.op = "try_consume") =>
           /\ (tbf = <<>> /\ now = 0 /\ last'.n = 3) =>
                  (last'.ok /\ last'.tokens = Tokens(7) /\ last'.ts = 0)
           /\ (tbf = <<[tokens |-> Tokens(7), last |-> 0]>> /\ now = 0
               /\ last'.n = 8) =>
                  (~last'.ok /\ last'.tokens = Tokens(7) /\ last'.ts = 0)
           /\ (tbf = <<[tokens |-> Tokens(7), last |-> 0]>> /\ now = 5
               /\ last'.n = 8) =>
                  (last'.ok /\ last'.tokens >= Tokens(4)
                   /\ last'.tokens <= Tokens(5) /\ last'.ts = 5)]_vars
\* C17 as the code has it: the same two calls at t = 0, and try_consume(8) at
\* t = 5 finds the bucket refilled to its ceiling of 10 tokens and returns
\* (true, 2, 5).
C17_ScenarioCeiling ==
    [][(last'.op = "try_consume") =>
           /\ (tbf = <<>> /\ now = 0 /\ last'.n = 3) =>
                  (last'.ok /\ last'.tokens = Tokens(7) /\ last'.ts = 0)
           /\ (tbf = <<[tokens |-> Tokens(7), last |-> 0]>> /\ now = 0
               /\ last'.n = 8) =>
                  (~last'.ok /\ last'.tokens = Tokens(7) /\ last'.ts = 0)
           /\ (tbf = <<[tokens |-> Tokens(7), last |-> 0]>> /\ now = 5
               /\ last'.n = 8) =>
                  (last'.ok /\ last'.tk = Tokens(10)
                   /\ last'.tokens = Tokens(2) /\ last'.ts = 5)]_vars
\* try_consume(8) at t = 5 has found 10 tokens and left 2, stamped 5
C17_Witness ==
    /\ now = 5 /\ last.op = "try_consume" /\ last.n = 8 /\ last.ok
    /\ last.tk = Tokens(10) /\ last.tokens = Tokens(2)
    /\ tbf = <<[tokens |-> Tokens(2), last |-> 5]>>

\* C18: on a scheduled bucket tokens never accrue between period boundaries: a
\* peek or try_consume at time t that finds the row (k, t0) observes rate tokens
\* if a multiple of period lies in (t0, t], and exactly k tokens otherwise.
C18_NoAccrualBetweenBoundaries ==
    [][(kind = "scheduled" /\ tbf # <<>> /\ last'.op \in {"peek", "try_consume"}) =>
           last'.tk = IF \E b \in (tbf[1].last + 1)..now : b % period = 0
                      THEN rate * period
                      ELSE tbf[1].tokens]_vars
\* a peek half way through a period of 2 still finds a partly used bucket
C18_Witness ==
    /\ kind = "scheduled" /\ period = 2 /\ now = 1
    /\ last.op = "peek" /\ last.tk > 0 /\ last.tk < rate * period
\* a try_consume just after a boundary finds a full bucket and takes from it
C18_WitnessRefilled ==
    /\ kind = "scheduled" /\ period = 2 /\ now = 2
    /\ last.op = "try_consume" /\ last.ok /\ last.n = rate /\ last.tk = rate * period
    /\ tbf # <<>> /\ tbf[1].tokens = 0

\* C19: on a scheduled bucket the first peek after a period boundary has been
\* crossed (the stored row is older than the latest boundary) returns rate
\* tokens and the boundary itself as timestamp; with rate = 5 and period = 60 s,
\* after 5 tokens were consumed at 59 s, a peek at 60.5 s returns 5 tokens with
\* timestamp 60 s.
C19_PeekReturnsBoundary ==
    [][(kind = "scheduled" /\ last'.op = "peek" /\ tbf # <<>>
        /\ now - (now % period) > tbf[1].last) =>
           (last'.tokens = rate * period /\ last'.ts = now - (now % period))]_vars
\* C19, the tokens alone: the first peek after a boundary returns rate tokens
\* (its timestamp is the time of the peek).
C19_PeekReturnsRate ==
    [][(kind = "scheduled" /\ last'.op = "peek" /\ tbf # <<>>
        /\ now - (now % period) > tbf[1].last) =>
           (last'.tokens = rate * period /\ last'.ts = now)]_vars
\* the peek at 60.5 s has returned 5 tokens, stamped 60.5 s
C19_PeekAfterBoundary ==
    /\ kind = "scheduled" /\ now = 121 /\ last.op = "peek"
    /\ last.tokens = rate * period /\ last.ts = 121

\* C20: on a time-series bucket in any reachable state, after record(t) a peek
\* with query_time = t returns a list that contains t, and a peek at any query
\* time later than t + period returns a list that does not contain t.
C20_RecordPeekRoundTrip ==
    /\ [][(kind = "ts" /\ last'.op = "record") =>
              \A t \in TimeVals :
                  last'.times[t] > 0 => Window(rows', t)[t] > 0]_vars
    /\ []((kind = "ts" /\ last.op = "peek") =>
              \A t \in TimeVals : last.qt > t + period => last.times[t] = 0)
\* C20, the second half alone: a peek at a query time later than t + period
\* returns a list that does not contain t.
C20_ExpiredNotPeeked ==
    (kind = "ts" /\ last.op = "peek") =>
        \A t \in TimeVals : last.qt > t + period => last.times[t] = 0
\* a record(t) has returned and no row with time t is stored
C20_RecordedRowTrimmed ==
    /\ kind = "ts" /\ last.op = "record"
    /\ \E t \in TimeVals : last.times[t] > 0 /\ rows[t] = 0
\* a peek has returned without a timestamp that is stored but has expired
C20_ExpiredRowStored ==
    /\ kind = "ts" /\ last.op = "peek"
    /\ \E t \in TimeVals : rows[t] > 0 /\ last.qt > t + period /\ last.times[t] = 0

\* C21: the default trim, run after an insertion, deletes exactly the rows with
\* time < max(time) - period, the maximum taken over the stored and the inserted
\* rows; and when no stored or inserted timestamp is later than now, every row
\* of the live window [now - period, now] is kept.
C21_TrimKeepsLiveWindow ==
    [][(kind = "ts" /\ last'.op = "record" /\ \E t \in TimeVals : last'.times[t] > 0) =>
           LET all == [t \in TimeVals |-> rows[t] + last'.times[t]]
               newest == CHOOSE m \in TimeVals :
                             all[m] > 0 /\ \A u \in TimeVals : all[u] > 0 => u <= m
           IN  /\ \A t \in TimeVals :
                      rows'[t] = IF t < newest - period THEN 0 ELSE all[t]
               /\ (\A t \in TimeVals : all[t] > 0 => t <= now) =>
                      \A t \in TimeVals :
                          (t >= now - period /\ t <= now) => rows'[t] = all[t]]_vars
\* a record of timestamps not later than now has returned with one of them
\* deleted by the trim, and the rows stored are not later than now either
C21_Witness ==
    /\ kind = "ts" /\ last.op = "record"
    /\ \A t \in TimeVals : (rows[t] > 0 \/ last.times[t] > 0) => t <= now
    /\ \E t \in TimeVals : last.times[t] > 0 /\ rows[t] = 0
    /\ \E t \in TimeVals : rows[t] > 0 /\ t >= now - period

\* C22: on a time-series bucket with the default trim, used only through
\* try_consume and consume under a non-decreasing clock, the number of rows
\* stored for the key, inside or outside the window, never exceeds rate.
C22_RowsBounded ==
    kind = "ts" => SumTo(rows, MaxTime) <= rate
\* the bucket holds rate rows at two different times after the trim has deleted
\* rows of tokens handed out before
C22_Witness ==
    /\ kind = "ts" /\ SumTo(rows, MaxTime) = rate
    /\ SumTo(granted, MaxTime) > rate
    /\ \E t, u \in TimeVals : t # u /\ rows[t] > 0 /\ rows[u] > 0
    /\ \A p \in Procs : cpc[p] = "idle"

C23_Returned ==
    /\ last.op = "consume" /\ pc = "done" /\ last.ok /\ ~last.err
    /\ last.n = rate /\ last.leave < rate /\ now > 0 /\ last.qt = now
\* a consume of more than rate tokens is asleep on a classic bucket at MaxTime
C23_LoopsForever ==
    /\ kind = "classic" /\ last.op = "consume" /\ last.n > rate
    /\ pc = "sleep" /\ now = MaxTime

\* C24: inside consume, with n and leave for which the call can succeed
\* (0 < n <= rate, leave < rate), every failed try_consume is followed by a
\* sleep before the next attempt: the loop never goes from a failed attempt
\* straight to the next one.
C24_SleepsAfterFailure ==
    [][(/\ last.op = "consume" /\ pc = "estimate"
        /\ last.n > 0 /\ last.n <= rate /\ last.leave < rate) =>
           pc' # "try"]_vars
\* C24, for a classic or scheduled bucket short of n tokens and a clock read at
\* the instant of the failed attempt: the loop goes to sleep, until a target
\* later than that instant.
C24_SleepsWhenShort ==
    [][(/\ last.op = "consume" /\ pc = "estimate" /\ kind # "ts"
        /\ last.tokens < last.n * period /\ now = last.qt /\ pc' # "estimate") =>
           (pc' = "sleep" /\ target' > now * TargetDen)]_vars
\* a consume that can succeed has failed an attempt for the sake of leave, with
\* n tokens in the bucket: it will retry without sleeping
C24_SpinsOnLeave ==
    /\ last.op = "consume" /\ pc = "estimate" /\ kind # "ts"
    /\ last.n > 0 /\ last.n <= rate /\ last.leave < rate
    /\ last.tokens >= last.n * period /\ last.tokens <= last.leave * period
    /\ now = last.qt

\* C25: on a classic bucket used through peek, try_consume and consume with
\* n > 0 by any number of callers under a non-decreasing clock, the tokens
\* granted during any interval [t0, t1] are at most
\* rate + (t1 - t0) * rate / period.
C25_ClassicEnvelope ==
    kind = "classic" =>
        \A t0 \in TimeVals : \A t1 \in t0..MaxTime :
            (SumTo(granted, t1) - SumTo(granted, t0 - 1)) * period
                <= rate * period + (t1 - t0) * rate
\* the envelope is used up over the whole run of the clock, with grants at more
\* than one instant and a caller waiting for the write lock
C25_Witness ==
    /\ kind = "classic" /\ now = MaxTime
    /\ SumTo(granted, MaxTime) * period = rate * period + MaxTime * rate
    /\ \E t \in TimeVals : t > 0 /\ granted[t] > 0
    /\ \E p, q \in Procs : p # q /\ cpc[p] = "begin" /\ lock = <<q>>

\* C26: on a scheduled bucket used through peek, try_consume and consume with
\* n > 0 by any number of callers under a non-decreasing clock, the tokens
\* granted within one period interval [k * period, (k + 1) * period) are at
\* most rate.
C26_ScheduledPeriodLimit ==
    kind = "scheduled" =>
        \A k \in 0..MaxTime :
            k * period <= MaxTime =>
                GrantedIn(k * period, (k + 1) * period - 1) <= rate
\* two period intervals have each had their rate tokens granted, the first at
\* two different instants
C26_Witness ==
    /\ kind = "scheduled" /\ period = 2 /\ rate = 2
    /\ granted[0] = 1 /\ granted[1] = 1 /\ granted[2] = 2

\* C27: every operation on the bucket with one key leaves the rows of the other
\* key unchanged in both tables, and two operations on different keys commute:
\* made in either order at the same reading of the clock, they leave the same
\* rows for both keys.
C27_KeysIndependent ==
    /\ \A key \in Keys : \A other \in Keys \ {key} : \A c \in KeyCalls :
           LET after == StoreCall(store, key, c, now)
           IN  /\ after.tbf[other] = store.tbf[other]
               /\ after.ts[other] = store.ts[other]
    /\ \A c \in KeyCalls : \A d \in KeyCalls :
           StoreCall(StoreCall(store, "a", c, now), "b", d, now)
               = StoreCall(StoreCall(store, "b", d, now), "a", c, now)
\* key "a" has been trimmed to its newest row while key "b" keeps a row that
\* the same delete would have removed had it not been bound to the key
C27_Witness ==
    /\ kind = "ts" /\ period = 1
    /\ store.ts["a"][2] > 0 /\ store.ts["a"][0] = 0
    /\ store.ts["b"][0] > 0 /\ store.ts["b"][2] = 0
\* two classic or scheduled buckets hold different rows under their two keys
C27_WitnessRows ==
    /\ kind # "ts" /\ store.tbf["a"] # <<>> /\ store.tbf["b"] # <<>>
    /\ store.tbf["a"][1].tokens # store.tbf["b"][1].tokens
    /\ store.tbf["a"][1].last # store.tbf["b"][1].last
============================================================================
